---- MODULE Spec2Model ----
(***************************************************************************)
(* Verification model of the kulasisi-data lexicon tools:                  *)
(*   - src/dictionaries/gcide/parser.py   (GCIDE XML dictionary parser)    *)
(*   - src/dictionaries/pinoy_dictionary/parser.py (scraped dictionary)    *)
(*   - src/freqlists/generate_freqlists.py (frequency aggregation)         *)
(*                                                                         *)
(* Text is modelled as a sequence of one-character strings, so that        *)
(* lower-casing, stripping, splitting and integer parsing are computed     *)
(* character by character as the Python code computes them.                *)
(* Python's Optional values are modelled as None == <<>> / Some(x) == <<x>>.*)
(***************************************************************************)
EXTENDS Integers, Sequences, FiniteSets, TLC

VARIABLES
    \* ---- gcide parser ----
    order,        \* iteration order of the set STARTING_LETTERS (parse, line 48)
    wpc,          \* per letter: position of the process_letter worker
    read,         \* per letter: raw <p> records the worker has consumed so far
    data,         \* per letter: the worker's local list `data`
    next_result,  \* index into order of the next result parse() will consume
    parsed_data,  \* main()'s list parsed_data
    mpc,          \* position of main(): "parse", "export", "exit"
    written,      \* the JSON documents written so far (their "entries")
    \* ---- frequency list generator ----
    fpc,          \* position of generate_freq_lists / apply_existing_freqlist
    seen,         \* the word-list files wordlists_dir.glob has yielded so far
    lang,         \* the local `lang` of generate_freq_lists
    lines_read,   \* per language: the lines read from its word lists so far
    freq_lists,   \* main()'s dict freq_lists: lang -> (word -> count)
    reference,    \* per language: the rows of its Leipzig file, or None
    row_idx,      \* index of the next row of the csv reader
    \* ---- scraped dictionary parser ----
    ppc,          \* position of main(): "load", "parse", "export", "exit"
    p_raw,        \* the entries of raw_data that parse has consumed so far
    p_parsed,     \* main()'s list parsed_data
    p_written,    \* the JSON documents written so far (their "entries")
    \* ---- text cleanup ----
    c_text,       \* the text handed to the cleanup
    c_out         \* the results of the successive cleanups of c_text

gvars == <<order, wpc, read, data, next_result, parsed_data, mpc, written>>
fvars == <<fpc, seen, lang, lines_read, freq_lists, reference, row_idx>>
pvars == <<ppc, p_raw, p_parsed, p_written>>
cvars == <<c_text, c_out>>
vars == <<gvars, fvars, pvars, cvars>>

(***************************************************************************)
(* Bounds of the model.                                                    *)
(***************************************************************************)
MaxRecords == 3     \* total number of <p> records read over all partitions
MaxDefs == 2        \* <def> nodes in one <p> record
MaxLines == 2       \* total number of word-list lines read in one run
MaxRows == 2        \* rows of a reference frequency file
MaxEntries == 3     \* entries of a collection handed to export_parsed_data
MaxRaw == 2         \* entries of the scraped raw_data
MaxTokens == 5      \* tokens of a text handed to the cleanup

(***************************************************************************)
(* Optional values and text helpers.                                       *)
(***************************************************************************)
None == <<>>
Some(x) == <<x>>

Uppercase == <<"A","B","C","D","E","F","G","H","I","J","K","L","M",
               "N","O","P","Q","R","S","T","U","V","W","X","Y","Z">>
Lowercase == <<"a","b","c","d","e","f","g","h","i","j","k","l","m",
               "n","o","p","q","r","s","t","u","v","w","x","y","z">>
Digits == <<"0","1","2","3","4","5","6","7","8","9">>

IndexIn(c, alphabet) ==
    IF \E i \in DOMAIN alphabet : alphabet[i] = c
    THEN CHOOSE i \in DOMAIN alphabet : alphabet[i] = c
    ELSE 0

\* Code point of a character (the characters the model uses).
Ord(c) ==
    IF IndexIn(c, Uppercase) > 0 THEN 64 + IndexIn(c, Uppercase)
    ELSE IF IndexIn(c, Lowercase) > 0 THEN 96 + IndexIn(c, Lowercase)
    ELSE IF IndexIn(c, Digits) > 0 THEN 47 + IndexIn(c, Digits)
    ELSE IF c = " " THEN 32
    ELSE IF c = "(" THEN 40
    ELSE IF c = ")" THEN 41
    ELSE IF c = "," THEN 44
    ELSE IF c = "-" THEN 45
    ELSE IF c = "." THEN 46
    ELSE 0

\* str.lower(), one character.
LowerChar(c) ==
    IF IndexIn(c, Uppercase) > 0 THEN Lowercase[IndexIn(c, Uppercase)] ELSE c

\* str.lower(), as a mutant would leave it: no case folding.
LowerIdentity(s) == s

\* str.lower()
Lower(s) == [i \in 1..Len(s) |-> LowerChar(s[i])]

IsSpace(c) == c \in {" ", "\n"}

RECURSIVE LStrip(_)
LStrip(s) == IF s # <<>> /\ IsSpace(Head(s)) THEN LStrip(Tail(s)) ELSE s

RECURSIVE RStrip(_)
RStrip(s) ==
    IF s # <<>> /\ IsSpace(s[Len(s)]) THEN RStrip(SubSeq(s, 1, Len(s) - 1)) ELSE s

\* Mutant: at most one white-space character is removed from each end.
StripOnce(s) ==
    LET l == IF s # <<>> /\ IsSpace(Head(s)) THEN Tail(s) ELSE s
    IN IF l # <<>> /\ IsSpace(l[Len(l)]) THEN SubSeq(l, 1, Len(l) - 1) ELSE l

\* str.strip() / get_text(strip=True) of a single text node
Strip(s) == RStrip(LStrip(s))

\* Python's < on str: lexicographic by code point.
RECURSIVE StrLess(_, _)
StrLess(s, t) ==
    IF t = <<>> THEN FALSE
    ELSE IF s = <<>> THEN TRUE
    ELSE IF Ord(Head(s)) # Ord(Head(t)) THEN Ord(Head(s)) < Ord(Head(t))
    ELSE StrLess(Tail(s), Tail(t))

(***************************************************************************)
(* gcide parser: raw records.                                              *)
(* A raw record is one <p> node: its <ent> text (None when there is no     *)
(* <ent> node), the texts of its <def> nodes, and whether rendering it     *)
(* raises.  The text of a <def> node is modelled by the place it comes     *)
(* from, <<letter, record index, def index>>, so that distinct nodes carry *)
(* distinct text and the origin of every emitted definition is visible.    *)
(***************************************************************************)
Letters == {"a", "b"}

EntTexts == {None, Some(<<" ">>), Some(<<"a", " ">>), Some(<<"B">>)}

\* A <p> node holds no <def> node or MaxDefs of them.
DefCounts == {0, MaxDefs}

RawRecords(l, i) ==
    { [ent |-> e, defs |-> [k \in 1..n |-> <<l, i, k>>], raises |-> FALSE] :
          e \in EntTexts, n \in DefCounts }
    \cup { [ent |-> None, defs |-> <<>>, raises |-> TRUE] }

\* Python truthiness of an optional string: neither None nor "".
Truthy(optstr) == optstr # None /\ optstr[1] # <<>>

\* Mutant: None is returned for a record with neither headword nor definitions.
ProcessEntryNoneWhenEmpty(entry) ==
    IF entry.raises THEN None
    ELSE IF (entry.ent = None \/ Strip(entry.ent[1]) = <<>>) /\ entry.defs = <<>>
    THEN None
    ELSE Some([word |-> IF entry.ent = None THEN None
                        ELSE Some(Strip(entry.ent[1])),
               definitions |-> [k \in 1..Len(entry.defs) |->
                                   [description |-> entry.defs[k]]]])

\* process_entry: the entry dict wrapped in Some, or None when the body raises.
ProcessEntry(entry) ==
    IF entry.raises THEN None
    ELSE Some([word |-> IF entry.ent = None THEN None
                        ELSE Some(Strip(entry.ent[1])),
               definitions |-> [k \in 1..Len(entry.defs) |->
                                   [description |-> entry.defs[k]]]])

\* Mutant: the headword test forgotten, every entry dict is appended.
AppendAlways(d, new_entry) ==
    IF new_entry = None THEN d ELSE Append(d, new_entry[1])

\* Mutant: a headword-less entry with no owner is kept instead of dropped.
KeepOrphan(d, new_entry) ==
    IF new_entry = None THEN d
    ELSE IF Truthy(new_entry[1].word) \/ Len(d) = 0 THEN Append(d, new_entry[1])
    ELSE [d EXCEPT ![Len(d)].definitions = @ \o new_entry[1].definitions]

\* Mutant: the continuation is folded into the first entry (data[0]).
ExtendFirst(d, new_entry) ==
    IF new_entry = None THEN d
    ELSE IF Truthy(new_entry[1].word) THEN Append(d, new_entry[1])
    ELSE IF Len(d) >= 1
         THEN [d EXCEPT ![1].definitions = @ \o new_entry[1].definitions]
         ELSE d

\* The loop body of process_letter (lines 73-81) on the worker's list.
ProcessLetterStep(d, new_entry) ==
    IF new_entry = None THEN d
    ELSE IF Truthy(new_entry[1].word) THEN Append(d, new_entry[1])
    ELSE IF Len(d) >= 1
         THEN [d EXCEPT ![Len(d)].definitions = @ \o new_entry[1].definitions]
         ELSE d

\* process_letter on a whole partition: the left fold of the loop body.
RECURSIVE ProcessLetter(_)
ProcessLetter(entries) ==
    IF entries = <<>> THEN <<>>
    ELSE ProcessLetterStep(ProcessLetter(SubSeq(entries, 1, Len(entries) - 1)),
                           ProcessEntry(entries[Len(entries)]))

\* Mutant: one list shared by all the workers.
StoreShared(all, l, d) == [x \in DOMAIN all |-> d]

\* process_letter's list `data` is local to the call: one list per worker.
StoreLetter(all, l, d) == [all EXCEPT ![l] = d]

\* list.extend
Extend(parsed, result) == parsed \o result

\* Mutant: the sort key without case folding.
SortKeyCaseSensitive(entry) == entry.word[1]

\* The sort key of export_parsed_data (line 174).
SortKey(entry) == Lower(entry.word[1])

\* list.sort(key=...): stable, ascending.
RECURSIVE InsertByKey(_, _)
InsertByKey(e, sorted) ==
    IF sorted = <<>> THEN <<e>>
    ELSE IF StrLess(SortKey(e), SortKey(Head(sorted)))
         THEN <<e>> \o sorted
         ELSE <<Head(sorted)>> \o InsertByKey(e, Tail(sorted))

RECURSIVE SortByWord(_)
SortByWord(entries) ==
    IF entries = <<>> THEN <<>>
    ELSE InsertByKey(entries[Len(entries)],
                     SortByWord(SubSeq(entries, 1, Len(entries) - 1)))

SeqsUpTo(S, n) == UNION { [1..k -> S] : k \in 0..n }

Orders(S) ==
    { p \in [1..Cardinality(S) -> S] : \A i, j \in DOMAIN p : i # j => p[i] # p[j] }

TotalLen(seqs) == LET RECURSIVE Sum(_)
                      Sum(S) == IF S = {} THEN 0
                                ELSE LET x == CHOOSE x \in S : TRUE
                                     IN Len(seqs[x]) + Sum(S \ {x})
                  IN Sum(DOMAIN seqs)

TotalRead == LET RECURSIVE Sum(_)
                 Sum(S) == IF S = {} THEN 0
                           ELSE LET x == CHOOSE x \in S : TRUE
                                IN Len(read[x]) + Sum(S \ {x})
             IN Sum(Letters)

(***************************************************************************)
(* gcide parser: state machine.                                            *)
(***************************************************************************)
GInit ==
    /\ order \in Orders(Letters)
    /\ wpc = [l \in Letters |-> "open"]
    /\ read = [l \in Letters |-> <<>>]
    /\ data = [l \in Letters |-> <<>>]
    /\ next_result = 1
    /\ parsed_data = <<>>
    /\ mpc = "parse"
    /\ written = <<>>

\* No text is being cleaned.
CIdle ==
    /\ c_text = <<>>
    /\ c_out = <<>>

\* The scraped dictionary parser is not running.
PIdle ==
    /\ ppc = "idle"
    /\ p_raw = <<>>
    /\ p_parsed = <<>>
    /\ p_written = <<>>

\* The frequency generator is not running.
FIdle ==
    /\ fpc = "idle"
    /\ seen = {}
    /\ lang = ""
    /\ lines_read = <<>>
    /\ freq_lists = <<>>
    /\ reference = <<>>
    /\ row_idx = 0

\* process_letter: the partition's file cannot be read (lines 59-64).
ReadError(l) ==
    /\ wpc[l] = "open"
    /\ wpc' = [wpc EXCEPT ![l] = "done"]
    /\ UNCHANGED <<order, read, data, next_result, parsed_data, mpc, written>>
    /\ UNCHANGED <<fvars, pvars, cvars>>

\* process_letter: the file is read and split into <p> nodes (lines 60-70).
OpenFile(l) ==
    /\ wpc[l] = "open"
    /\ wpc' = [wpc EXCEPT ![l] = "loop"]
    /\ UNCHANGED <<order, read, data, next_result, parsed_data, mpc, written>>
    /\ UNCHANGED <<fvars, pvars, cvars>>

\* process_letter: one iteration of the loop over the <p> nodes (lines 72-81).
ProcessRecord(l) ==
    /\ wpc[l] = "loop"
    /\ TotalRead < MaxRecords
    /\ \E entry \in RawRecords(l, Len(read[l]) + 1) :
          /\ read' = [read EXCEPT ![l] = Append(@, entry)]
          /\ data' = StoreLetter(data, l, ProcessLetterStep(data[l], ProcessEntry(entry)))
    /\ UNCHANGED <<order, wpc, next_result, parsed_data, mpc, written>>
    /\ UNCHANGED <<fvars, pvars, cvars>>

\* process_letter: the loop is over, the list is returned (line 83).
ReturnData(l) ==
    /\ wpc[l] = "loop"
    /\ wpc' = [wpc EXCEPT ![l] = "done"]
    /\ UNCHANGED <<order, read, data, next_result, parsed_data, mpc, written>>
    /\ UNCHANGED <<fvars, pvars, cvars>>

\* parse: the next result of executor.map, in submission order (lines 50-51).
ExtendParsed ==
    /\ mpc = "parse"
    /\ next_result <= Len(order)
    /\ wpc[order[next_result]] = "done"
    /\ parsed_data' = Extend(parsed_data, data[order[next_result]])
    /\ next_result' = next_result + 1
    /\ UNCHANGED <<order, wpc, read, data, mpc, written>>
    /\ UNCHANGED <<fvars, pvars, cvars>>

\* parse returns (lines 53-54).
ParseReturn ==
    /\ mpc = "parse"
    /\ next_result > Len(order)
    /\ mpc' = "export"
    /\ UNCHANGED <<order, wpc, read, data, next_result, parsed_data, written>>
    /\ UNCHANGED <<fvars, pvars, cvars>>

\* export_parsed_data on a list: the list after the call, and the files after it.
ExportSorted(entries) == SortByWord(entries)

\* main's final export_parsed_data(parsed_data) (line 42, lines 164-208).
Export ==
    /\ mpc = "export"
    /\ mpc' = "exit"
    /\ IF parsed_data = <<>>
       THEN UNCHANGED <<parsed_data, written>>
       ELSE /\ parsed_data' = ExportSorted(parsed_data)
            /\ \/ written' = Append(written, parsed_data')
               \/ UNCHANGED written    \* IOError while writing (lines 206-208)
    /\ UNCHANGED <<order, wpc, read, data, next_result>>
    /\ UNCHANGED <<fvars, pvars, cvars>>

GNext ==
    \/ \E l \in Letters : ReadError(l)
    \/ \E l \in Letters : OpenFile(l)
    \/ \E l \in Letters : ProcessRecord(l)
    \/ \E l \in Letters : ReturnData(l)
    \/ ExtendParsed
    \/ ParseReturn
    \/ Export

Init == GInit /\ FIdle /\ PIdle /\ CIdle
Next == GNext
Spec == Init /\ [][Next]_vars

(***************************************************************************)
(* Properties of the gcide parser.                                         *)
(***************************************************************************)
\* The normalized result of a raw record carries a headword.
HasHeadword(entry) ==
    ProcessEntry(entry) # None /\ Truthy(ProcessEntry(entry)[1].word)

\* A continuation record: normalized, no headword, at least one definition.
IsContinuation(entry) ==
    /\ ProcessEntry(entry) # None
    /\ ~Truthy(ProcessEntry(entry)[1].word)
    /\ ProcessEntry(entry)[1].definitions # <<>>

\* Every list of entries the program holds or has written.
Collections ==
    {data[l] : l \in Letters} \cup {parsed_data} \cup {written[i] : i \in DOMAIN written}

\* The descriptions found in a list of entries.
DescriptionsOf(entries) ==
    UNION { {entries[i].definitions[k].description :
                 k \in DOMAIN entries[i].definitions} : i \in DOMAIN entries }

\* C1: every entry of every output sequence has a present, non-empty
\* headword, and a worker's output holds exactly one entry per raw record
\* whose normalized result has a headword: a headword-less record is never
\* appended as an entry of its own.
C1_HeadwordPresent ==
    /\ \A c \in Collections : \A i \in DOMAIN c : Truthy(c[i].word)
    /\ \A l \in Letters :
          Len(data[l]) = Cardinality({i \in DOMAIN read[l] : HasHeadword(read[l][i])})

\* C1 witness: a finished worker has read a headword-less record with
\* definitions and returns a non-empty list.
C1_Witness ==
    \E l \in Letters :
        /\ wpc[l] = "done"
        /\ data[l] # <<>>
        /\ \E i \in DOMAIN read[l] : IsContinuation(read[l][i])

\* C2: a headword-less record that arrives while the worker's output is
\* empty (no record before it has a headword) is dropped: none of its
\* definitions is in any entry of any output, whatever follows it; and the
\* stream [continuation, headword] gives a result different from that of
\* [headword, continuation].
C2_OrphanDropped ==
    /\ \A l \in Letters : \A i \in DOMAIN read[l] :
          (\A j \in 1..i : ~HasHeadword(read[l][j]))
              => \A c \in Collections :
                    \A k \in DOMAIN read[l][i].defs :
                        read[l][i].defs[k] \notin DescriptionsOf(c)
    /\ \A l \in Letters :
          (/\ Len(read[l]) = 2
           /\ IsContinuation(read[l][1])
           /\ HasHeadword(read[l][2]))
              => data[l] # ProcessLetter(<<read[l][2], read[l][1]>>)

\* C2 witness: a worker has read [continuation, headword], is done, and its
\* result was exported.
C2_Witness ==
    \E l \in Letters :
        /\ Len(read[l]) = 2
        /\ IsContinuation(read[l][1])
        /\ HasHeadword(read[l][2])
        /\ wpc[l] = "done"
        /\ Len(data[l]) = 1
        /\ written # <<>>

\* C3: a step that processes a continuation record while the worker's output
\* is non-empty appends the record's definitions, in source order, to the
\* end of the definitions of the last entry only: the earlier definitions of
\* that entry stay as a prefix, the other entries, the number of entries and
\* every other list are unchanged.
C3_ExtendLastOnly ==
    [][\A l \in Letters :
          (/\ Len(read'[l]) = Len(read[l]) + 1
           /\ IsContinuation(read'[l][Len(read'[l])])
           /\ data[l] # <<>>)
          => LET n == Len(data[l])
                 new == read'[l][Len(read'[l])].defs
                 old == data[l][n].definitions
                 now == data'[l][n].definitions
             IN /\ Len(data'[l]) = n
                /\ \A i \in 1..(n - 1) : data'[l][i] = data[l][i]
                /\ data'[l][n].word = data[l][n].word
                /\ Len(now) = Len(old) + Len(new)
                /\ SubSeq(now, 1, Len(old)) = old
                /\ \A k \in DOMAIN new : now[Len(old) + k].description = new[k]
                /\ \A m \in Letters \ {l} : data'[m] = data[m]
                /\ parsed_data' = parsed_data
      ]_vars

\* C3 witness: two headword records, the second with a definition, then a
\* continuation with two definitions, all folded by one worker.
C3_Witness ==
    \E l \in Letters :
        /\ Len(read[l]) = 3
        /\ HasHeadword(read[l][1])
        /\ HasHeadword(read[l][2])
        /\ read[l][2].defs # <<>>
        /\ IsContinuation(read[l][3])
        /\ Len(read[l][3].defs) = MaxDefs
        /\ Len(data[l]) = 2
        /\ Len(data[l][2].definitions) = 2 * MaxDefs

\* C4: under every interleaving each worker's list is the fold of its own
\* partition's records alone, every definition of an entry comes from the
\* entry's own partition, and a partition without any headword record
\* yields nothing, whatever the other partitions hold.
C4_PartitionIsolation ==
    /\ \A l \in Letters : data[l] = ProcessLetter(read[l])
    /\ \A l \in Letters : \A d \in DescriptionsOf(data[l]) : d[1] = l
    /\ \A c \in Collections : \A i \in DOMAIN c :
          \A j, k \in DOMAIN c[i].definitions :
              c[i].definitions[j].description[1] = c[i].definitions[k].description[1]
    /\ \A l \in Letters :
          (\A i \in DOMAIN read[l] : ~HasHeadword(read[l][i])) => data[l] = <<>>

\* C4 witness: one partition holds only a continuation record and has
\* returned nothing, while another partition returned a headword entry, and
\* the run has exported.
C4_Witness ==
    \E l, m \in Letters :
        /\ l # m
        /\ Len(read[l]) = 1
        /\ IsContinuation(read[l][1])
        /\ wpc[l] = "done"
        /\ data[l] = <<>>
        /\ wpc[m] = "done"
        /\ data[m] # <<>>
        /\ written # <<>>
        /\ Len(written[1]) = Len(data[m])

\* A raw record with no resolvable headword and no derivable definitions.
IsEmptyRecord(entry) ==
    /\ entry.ent = None \/ Strip(entry.ent[1]) = <<>>
    /\ entry.defs = <<>>

\* C9 as stated: for every raw record with no resolvable headword and no
\* derivable definitions, process_entry returns None.
C9_EmptyRecordIsNone ==
    \A l \in Letters : \A i \in DOMAIN read[l] :
        IsEmptyRecord(read[l][i]) => ProcessEntry(read[l][i]) = None

\* C9 amended: for such a record process_entry returns None only when it
\* raises; otherwise it returns an entry dict with an absent or empty
\* headword and no definitions, which the loop of process_letter leaves
\* without effect on the output.
C9_EmptyRecordIsEmptyEntry ==
    \A l \in Letters : \A i \in DOMAIN read[l] :
        IsEmptyRecord(read[l][i]) =>
            /\ (ProcessEntry(read[l][i]) = None) <=> read[l][i].raises
            /\ ~read[l][i].raises =>
                  /\ ~Truthy(ProcessEntry(read[l][i])[1].word)
                  /\ ProcessEntry(read[l][i])[1].definitions = <<>>
            /\ ProcessLetterStep(data[l], ProcessEntry(read[l][i])) = data[l]
            /\ ProcessLetter(read[l]) =
                  ProcessLetter([j \in 1..(Len(read[l]) - 1) |->
                                    IF j < i THEN read[l][j] ELSE read[l][j + 1]])

\* C9 witness: a worker has read, after a headword record, a record with an
\* <ent> node of blanks and no <def> node, and a record with no node at all.
C9_Witness ==
    \E l \in Letters :
        /\ Len(read[l]) = 3
        /\ HasHeadword(read[l][1])
        /\ IsEmptyRecord(read[l][2]) /\ read[l][2].ent # None
        /\ IsEmptyRecord(read[l][3]) /\ read[l][3].ent = None /\ ~read[l][3].raises
        /\ Len(data[l]) = 1

(***************************************************************************)
(* Frequency list generator (generate_freqlists.py).                       *)
(* A dict is a function from its keys; a csv row is a sequence of fields.  *)
(***************************************************************************)
Langs == {"tgl", "ceb"}

\* Stems of the word-list files, split on "_" (file_path.stem.split("_")).
StemPool == { <<"wordlist", "tgl">>, <<"extra", "tgl">>,
              <<"wordlist", "ceb">>, <<"notes">> }

\* Lines of the word lists.
LinePool == { <<"c","a","t","\n">>, <<" ","C","a","t","\n">>,
              <<"d","o","g">>, <<" ","\n">> }

\* Rows of a Leipzig file: id, word, count.
RowCat == << <<"1">>, <<"c","a","t">>, <<"5">> >>
RowDog == << <<"2">>, <<"D","o","g">>, <<"9">> >>
RowShort == << <<"c","a","t">> >>
RowText == << <<"3">>, <<"c","a","t">>, <<"x">> >>
RowPool == {RowCat, RowDog, RowShort, RowText}

\* The reference files: one for tgl at most, none for ceb.
References ==
    { [l \in Langs |-> IF l = "tgl" THEN r ELSE None] :
          r \in {None} \cup {Some(rows) : rows \in SeqsUpTo(RowPool, MaxRows)} }

EmptyDict == [k \in {} |-> 0]

\* d[k] = v
DictPut(d, k, v) == [x \in DOMAIN d \cup {k} |-> IF x = k THEN v ELSE d[x]]

\* d.get(k, default)
DictGet(d, k, default) == IF k \in DOMAIN d THEN d[k] ELSE default

\* d.setdefault(k, default)
SetDefault(d, k, default) == IF k \in DOMAIN d THEN d ELSE DictPut(d, k, default)

RECURSIVE DigitsValue(_, _)
DigitsValue(s, acc) ==
    IF s = <<>> THEN acc
    ELSE DigitsValue(Tail(s), 10 * acc + (IndexIn(Head(s), Digits) - 1))

\* int(text): Some(value), or None for ValueError.
ParseInt(text) ==
    LET t == Strip(text)
        signed == t # <<>> /\ Head(t) \in {"+", "-"}
        body == IF signed THEN Tail(t) ELSE t
    IN IF body = <<>> \/ \E i \in DOMAIN body : IndexIn(body[i], Digits) = 0
       THEN None
       ELSE Some(IF signed /\ Head(t) = "-" THEN 0 - DigitsValue(body, 0)
                 ELSE DigitsValue(body, 0))

\* Lines 45-46: one line of a word list is counted.
CountLine(fl, l, line) ==
    LET word == Lower(Strip(line))
    IN IF word # <<>>
       THEN [fl EXCEPT ![l] = DictPut(@, word, DictGet(@, word, 0) + 1)]
       ELSE fl

\* Mutant: a reference-only word is inserted (union with insertion).
ApplyRowInserting(fl, l, row) ==
    IF Len(row) < 2 THEN fl
    ELSE LET word == Lower(row[2])
             freq == ParseInt(row[Len(row)])
         IN IF freq = None THEN fl
            ELSE [fl EXCEPT ![l] = DictPut(@, word, DictGet(@, word, 0) + freq[1])]

\* Lines 68-78: one row of the reference file is applied.
ApplyRow(fl, l, row) ==
    IF Len(row) < 2 THEN fl
    ELSE LET word == Lower(row[2])
             freq == ParseInt(row[Len(row)])
         IN IF freq = None THEN fl
            ELSE IF word \in DOMAIN fl[l]
                 THEN [fl EXCEPT ![l] = DictPut(@, word, DictGet(@, word, 0) + freq[1])]
                 ELSE fl

\* Mutant: a malformed row ends the loop (break for continue).
BreakOnMalformed(rows, i) ==
    IF Len(rows[i]) < 2 \/ ParseInt(rows[i][Len(rows[i])]) = None
    THEN Len(rows) + 1
    ELSE i + 1

\* Lines 67-75: the row the reader yields after row i, also after a continue.
RowAfter(rows, i) == i + 1

TotalLines == LET RECURSIVE Sum(_)
                  Sum(S) == IF S = {} THEN 0
                            ELSE LET x == CHOOSE x \in S : TRUE
                                 IN Len(lines_read[x]) + Sum(S \ {x})
              IN Sum(Langs)

\* The gcide parser is not running.
GIdle ==
    /\ order = <<>>
    /\ wpc = <<>>
    /\ read = <<>>
    /\ data = <<>>
    /\ next_result = 0
    /\ parsed_data = <<>>
    /\ mpc = "idle"
    /\ written = <<>>

\* main, lines 13-21.
FInit ==
    /\ fpc = "glob"
    /\ seen = {}
    /\ lang = ""
    /\ lines_read = [l \in Langs |-> <<>>]
    /\ freq_lists = EmptyDict
    /\ reference \in References
    /\ row_idx = 0

\* Lines 29-37: a file whose stem holds no "_" is skipped.
SkipFile ==
    /\ fpc = "glob"
    /\ \E stem \in StemPool \ seen :
          /\ Len(stem) < 2
          /\ seen' = seen \cup {stem}
    /\ UNCHANGED <<fpc, lang, lines_read, freq_lists, reference, row_idx>>
    /\ UNCHANGED <<gvars, pvars, cvars>>

\* Lines 29-43: the next word list is opened.
StartFile ==
    /\ fpc = "glob"
    /\ \E stem \in StemPool \ seen :
          /\ Len(stem) >= 2
          /\ seen' = seen \cup {stem}
          /\ lang' = stem[2]
          /\ freq_lists' = SetDefault(freq_lists, stem[2], EmptyDict)
    /\ fpc' = "lines"
    /\ UNCHANGED <<lines_read, reference, row_idx>>
    /\ UNCHANGED <<gvars, pvars, cvars>>

\* Lines 44-46: one line of the word list.
ReadLine ==
    /\ fpc = "lines"
    /\ TotalLines < MaxLines
    /\ \E line \in LinePool :
          /\ lines_read' = [lines_read EXCEPT ![lang] = Append(@, line)]
          /\ freq_lists' = CountLine(freq_lists, lang, line)
    /\ UNCHANGED <<fpc, seen, lang, reference, row_idx>>
    /\ UNCHANGED <<gvars, pvars, cvars>>

\* Lines 48, 54-61: end of the word list; there is no reference file.
ApplyNoSource ==
    /\ fpc = "lines"
    /\ reference[lang] = None
    /\ fpc' = "glob"
    /\ UNCHANGED <<seen, lang, lines_read, freq_lists, reference, row_idx>>
    /\ UNCHANGED <<gvars, pvars, cvars>>

\* Lines 48, 54-66: end of the word list; the reference file is opened.
ApplyOpen ==
    /\ fpc = "lines"
    /\ reference[lang] # None
    /\ fpc' = "apply"
    /\ row_idx' = 1
    /\ UNCHANGED <<seen, lang, lines_read, freq_lists, reference>>
    /\ UNCHANGED <<gvars, pvars, cvars>>

\* Lines 67-78: one row of the reference file.
ApplyNextRow ==
    /\ fpc = "apply"
    /\ row_idx <= Len(reference[lang][1])
    /\ freq_lists' = ApplyRow(freq_lists, lang, reference[lang][1][row_idx])
    /\ row_idx' = RowAfter(reference[lang][1], row_idx)
    /\ UNCHANGED <<fpc, seen, lang, lines_read, reference>>
    /\ UNCHANGED <<gvars, pvars, cvars>>

\* Line 80: the reader is exhausted, apply_existing_freqlist returns.
ApplyReturn ==
    /\ fpc = "apply"
    /\ row_idx > Len(reference[lang][1])
    /\ fpc' = "glob"
    /\ UNCHANGED <<seen, lang, lines_read, freq_lists, reference, row_idx>>
    /\ UNCHANGED <<gvars, pvars, cvars>>

\* Lines 50-51: the glob is exhausted, generate_freq_lists returns.
GenerateReturn ==
    /\ fpc = "glob"
    /\ fpc' = "done"
    /\ UNCHANGED <<seen, lang, lines_read, freq_lists, reference, row_idx>>
    /\ UNCHANGED <<gvars, pvars, cvars>>

InitFreq == FInit /\ GIdle /\ PIdle /\ CIdle

NextFreq ==
    \/ SkipFile
    \/ StartFile
    \/ ReadLine
    \/ ApplyNoSource
    \/ ApplyOpen
    \/ ApplyNextRow
    \/ ApplyReturn
    \/ GenerateReturn

SpecFreq == InitFreq /\ [][NextFreq]_vars

(***************************************************************************)
(* Properties of the frequency list generator.                             *)
(***************************************************************************)
Cat == <<"c","a","t">>

\* A reference row with at least two columns and an integer count.
WellFormed(row) == Len(row) >= 2 /\ ParseInt(row[Len(row)]) # None

\* The lower-cased non-empty words of the word lists of language l.
WordsOf(l) ==
    {Lower(Strip(lines_read[l][i])) : i \in DOMAIN lines_read[l]} \ {<<>>}

\* Occurrences of word w in the word lists of language l.
Occurrences(l, w) ==
    Cardinality({i \in DOMAIN lines_read[l] : Lower(Strip(lines_read[l][i])) = w})

\* Sum of the reference counts of word w in a sequence of rows.
RECURSIVE RefSum(_, _)
RefSum(rows, w) ==
    IF rows = <<>> THEN 0
    ELSE (IF WellFormed(Head(rows)) /\ Lower(Head(rows)[2]) = w
          THEN ParseInt(Head(rows)[Len(Head(rows))])[1] ELSE 0)
         + RefSum(Tail(rows), w)

\* The reference rows of language l (none when there is no file).
RowsOf(l) == IF reference[l] = None THEN <<>> ELSE reference[l][1]

\* The word lists opened so far that map to language l.
FilesOf(l) == {stem \in seen : Len(stem) >= 2 /\ stem[2] = l}

\* C5, the key set: the keys of a language's table are exactly the
\* lower-cased non-empty words of its word lists, before, during and after
\* the merge of the reference table.
C5_KeysAreLocalWords ==
    \A l \in DOMAIN freq_lists : DOMAIN freq_lists[l] = WordsOf(l)

\* C5, the example: local {cat: 2} merged once with the reference rows
\* (cat, 5), (dog, 9) gives {cat: 7}.
C5_Example ==
    (/\ fpc \in {"glob", "done"}
     /\ Cardinality(FilesOf("tgl")) = 1
     /\ WordsOf("tgl") = {Cat} /\ Occurrences("tgl", Cat) = 2
     /\ reference["tgl"] = Some(<<RowCat, RowDog>>))
        => freq_lists["tgl"] = (Cat :> 7)

\* C5: applying a reference row never adds a key, the key set stays the set
\* of lower-cased non-empty words of the word lists, a well-formed row whose
\* word is a key adds its count to that key's value and changes nothing
\* else, and a row whose word is no key changes nothing.
C5_MergeAdditiveNoInsert ==
    /\ [](C5_KeysAreLocalWords /\ C5_Example)
    /\ [][(fpc = "apply" /\ row_idx' # row_idx) =>
             LET row == reference[lang][1][row_idx]
                 word == Lower(row[2])
             IN /\ DOMAIN freq_lists' = DOMAIN freq_lists
                /\ \A l \in DOMAIN freq_lists :
                      DOMAIN freq_lists'[l] = DOMAIN freq_lists[l]
                /\ WellFormed(row) =>
                      \A l \in DOMAIN freq_lists : \A w \in DOMAIN freq_lists[l] :
                          freq_lists'[l][w] =
                              IF l = lang /\ w = word
                              THEN freq_lists[l][w] + ParseInt(row[Len(row)])[1]
                              ELSE freq_lists[l][w]
      ]_vars

\* C5 witness: the example has run, {cat: 2} became {cat: 7} and dog is no key.
C5_Witness ==
    /\ fpc = "glob"
    /\ Cardinality(FilesOf("tgl")) = 1
    /\ WordsOf("tgl") = {Cat} /\ Occurrences("tgl", Cat) = 2
    /\ reference["tgl"] = Some(<<RowCat, RowDog>>)
    /\ freq_lists["tgl"] = (Cat :> 7)

\* C6: when generate_freq_lists has returned, the count of every word of
\* every language is its number of occurrences in the word lists of the
\* language plus the sum of its reference counts.
C6_CountIsOccurrencesPlusReference ==
    fpc = "done" =>
        \A l \in DOMAIN freq_lists : \A w \in DOMAIN freq_lists[l] :
            freq_lists[l][w] = Occurrences(l, w) + RefSum(RowsOf(l), w)

\* C6 holds of the runs in which no two word lists map to one language.
C6_HoldsForOneFilePerLanguage ==
    (fpc = "done" /\ \A l \in Langs : Cardinality(FilesOf(l)) <= 1) =>
        \A l \in DOMAIN freq_lists : \A w \in DOMAIN freq_lists[l] :
            freq_lists[l][w] = Occurrences(l, w) + RefSum(RowsOf(l), w)

\* C7: a step on a malformed row (fewer than two columns, or a count that is
\* no integer) leaves the tables unchanged and moves to the next row of the
\* same merge; the merge returns only when every row has been visited; and,
\* for the first word list of a language, the merge ends with every count
\* raised by the counts of the well-formed rows alone.
C7_MalformedRowSkipped ==
    [][/\ (fpc = "apply" /\ row_idx <= Len(RowsOf(lang))
              /\ ~WellFormed(RowsOf(lang)[row_idx])) =>
             /\ freq_lists' = freq_lists
             /\ row_idx' = row_idx + 1
             /\ fpc' = "apply"
       /\ (fpc = "apply" /\ fpc' # "apply") =>
             /\ row_idx = Len(RowsOf(lang)) + 1
             /\ Cardinality(FilesOf(lang)) = 1 =>
                   \A w \in DOMAIN freq_lists[lang] :
                       freq_lists'[lang][w] =
                           Occurrences(lang, w) + RefSum(RowsOf(lang), w)
      ]_vars

\* C7 witness: a merge over a malformed row followed by (cat, 5) has
\* returned, and the count of cat is its occurrences plus 5.
C7_Witness ==
    /\ fpc = "glob"
    /\ reference["tgl"] # None
    /\ \E i, j \in DOMAIN RowsOf("tgl") :
          /\ i < j
          /\ ~WellFormed(RowsOf("tgl")[i])
          /\ RowsOf("tgl")[j] = RowCat
    /\ Cardinality(FilesOf("tgl")) = 1
    /\ Cat \in DOMAIN freq_lists["tgl"]
    /\ freq_lists["tgl"][Cat] = Occurrences("tgl", Cat) + 5

(***************************************************************************)
(* Export of a parsed collection (gcide export_parsed_data).               *)
(* The specification starts where parse has returned: every worker is      *)
(* done and parsed_data is the concatenation of their lists.               *)
(***************************************************************************)
Zebra == <<"Z","e","b","r","a">>
Apple == <<"a","p","p","l","e">>
Bee == <<"B","e","e">>
BeeLower == <<"b","e","e">>
ExportWords == {Zebra, Apple, Bee, BeeLower}

\* The results of the workers, concatenated in the order parse consumes them.
RECURSIVE Concatenated(_)
Concatenated(n) ==
    IF n = 0 THEN <<>> ELSE Extend(Concatenated(n - 1), data[order[n]])

XInit ==
    /\ order \in Orders(Letters)
    /\ wpc = [l \in Letters |-> "done"]
    /\ \E words \in [Letters -> SeqsUpTo(ExportWords, MaxEntries)] :
          /\ TotalLen(words) <= MaxEntries
          /\ read = [l \in Letters |->
                        [i \in DOMAIN words[l] |->
                            [ent |-> Some(words[l][i]), defs |-> <<>>, raises |-> FALSE]]]
          /\ data = [l \in Letters |-> ProcessLetter(read[l])]
    /\ next_result = Len(order) + 1
    /\ parsed_data = Concatenated(Len(order))
    /\ mpc = "export"
    /\ written = <<>>

InitExport == XInit /\ FIdle /\ PIdle /\ CIdle
NextExport == Export
SpecExport == InitExport /\ [][NextExport]_vars

\* The headwords of a list of entries.
Headwords(entries) == [i \in DOMAIN entries |-> entries[i].word[1]]

\* How often entry e stands in a list.
CountIn(e, entries) == Cardinality({i \in DOMAIN entries : entries[i] = e})

\* C8: every written document holds the entries of the concatenated
\* partition results, each as often as there, in ascending order of the
\* lower-cased headword, whatever the order of concatenation; the headwords
\* [Zebra, apple, Bee] are written as [apple, Bee, Zebra].
C8_ExportSortedCaseInsensitive ==
    \A n \in DOMAIN written :
        LET doc == written[n]
            input == Concatenated(Len(order))
        IN /\ \A i, j \in DOMAIN doc :
                 i < j => ~StrLess(Lower(doc[j].word[1]), Lower(doc[i].word[1]))
           /\ Len(doc) = Len(input)
           /\ \A i \in DOMAIN input : CountIn(input[i], doc) = CountIn(input[i], input)
           /\ Headwords(input) = <<Zebra, Apple, Bee>>
                 => Headwords(doc) = <<Apple, Bee, Zebra>>

\* C8 witness: the collection [Zebra, apple, Bee], concatenated from two
\* partitions, has been written as [apple, Bee, Zebra].
C8_Witness ==
    /\ written # <<>>
    /\ data[order[1]] # <<>> /\ data[order[2]] # <<>>
    /\ Headwords(Concatenated(Len(order))) = <<Zebra, Apple, Bee>>
    /\ Headwords(written[1]) = <<Apple, Bee, Zebra>>

(***************************************************************************)
(* Scraped dictionary parser (pinoy_dictionary/parser.py): text operators. *)
(***************************************************************************)
IsDigit(c) == IndexIn(c, Digits) > 0
IsLowerLetter(c) == IndexIn(c, Lowercase) > 0
DigitChars == {Digits[k] : k \in DOMAIN Digits}
LowerLetters == {Lowercase[k] : k \in DOMAIN Lowercase}
SpaceChars == {" ", "\n"}

\* str.isspace()
IsSpaceStr(s) == s # <<>> /\ \A i \in DOMAIN s : IsSpace(s[i])

\* s[i:] (i counted from 0)
From(s, i) == SubSeq(s, i + 1, Len(s))

RECURSIVE LStripChars(_, _)
\* str.lstrip(chars)
LStripChars(s, chars) ==
    IF s # <<>> /\ Head(s) \in chars THEN LStripChars(Tail(s), chars) ELSE s

RECURSIVE RStripChars(_, _)
RStripChars(s, chars) ==
    IF s # <<>> /\ s[Len(s)] \in chars
    THEN RStripChars(SubSeq(s, 1, Len(s) - 1), chars)
    ELSE s

\* str.strip(chars)
StripChars(s, chars) == RStripChars(LStripChars(s, chars), chars)

\* str.replace(old, new) for one-character old and new
Replace(s, old, new) == [i \in DOMAIN s |-> IF s[i] = old THEN new ELSE s[i]]

\* str.split(sep) for a one-character separator
RECURSIVE Split(_, _)
Split(s, sep) ==
    IF \A i \in DOMAIN s : s[i] # sep THEN <<s>>
    ELSE LET k == CHOOSE k \in DOMAIN s :
                      s[k] = sep /\ \A i \in 1..(k - 1) : s[i] # sep
         IN <<SubSeq(s, 1, k - 1)>> \o Split(SubSeq(s, k + 1, Len(s)), sep)

\* The regex "." : any character but a newline.
Dot(c) == c # "\n"

\* The end of the leftmost match of \(.+?\) starting at i, or 0.
ParenMatchEnd(s, i) ==
    IF i <= Len(s) /\ s[i] = "("
       /\ \E j \in (i + 2)..Len(s) :
             s[j] = ")" /\ \A k \in (i + 1)..(j - 1) : Dot(s[k])
    THEN CHOOSE j \in (i + 2)..Len(s) :
             /\ s[j] = ")" /\ \A k \in (i + 1)..(j - 1) : Dot(s[k])
             /\ \A m \in (i + 2)..(j - 1) :
                   ~(s[m] = ")" /\ \A k \in (i + 1)..(m - 1) : Dot(s[k]))
    ELSE 0

\* re.sub(r"\(.+?\)", "", s), scanning from position i.
RECURSIVE SubParensFrom(_, _)
SubParensFrom(s, i) ==
    IF i > Len(s) THEN <<>>
    ELSE IF ParenMatchEnd(s, i) > 0 THEN SubParensFrom(s, ParenMatchEnd(s, i) + 1)
    ELSE <<s[i]>> \o SubParensFrom(s, i + 1)

\* re.sub(r"\(.+?\)", "", s)
SubParens(s) == SubParensFrom(s, 1)

\* Lines 75-78: the headword without asides, first spelling variant only.
ResolveWord(word) ==
    LET w == Strip(SubParens(word))
    IN IF \E i \in DOMAIN w : w[i] = ","
       THEN Strip(Split(w, ",")[1])
       ELSE w

\* Nesting depth of parentheses after each prefix of a pattern.
RECURSIVE Depth(_)
Depth(s) ==
    IF s = <<>> THEN 0
    ELSE Depth(SubSeq(s, 1, Len(s) - 1))
         + (IF s[Len(s)] = "(" THEN 1 ELSE IF s[Len(s)] = ")" THEN 0 - 1 ELSE 0)

\* re.compile of a headword as a pattern (letters, blanks and parentheses):
\* it compiles when its parentheses balance.
Compiles(pattern) ==
    /\ Depth(pattern) = 0
    /\ \A i \in DOMAIN pattern : Depth(SubSeq(pattern, 1, i)) >= 0

\* The text a compiled headword pattern matches: its groups are empty.
PatternText(pattern) ==
    LET RECURSIVE Literal(_)
        Literal(t) == IF t = <<>> THEN <<>>
                      ELSE IF Head(t) \in {"(", ")"} THEN Literal(Tail(t))
                      ELSE <<Head(t)>> \o Literal(Tail(t))
    IN Literal(pattern)

IsPrefix(a, b) == Len(a) <= Len(b) /\ SubSeq(b, 1, Len(a)) = a

\* Line 81: re.sub(f"^{word}", "", text).lstrip(" .,;:!?")
StripWordPrefix(word, text) ==
    LStripChars(IF IsPrefix(PatternText(word), text)
                THEN From(text, Len(PatternText(word)))
                ELSE text,
                {" ", ".", ",", ";", ":", "!", "?"})

(***************************************************************************)
(* Scraped dictionary parser: the definition pipeline of process_entry.    *)
(***************************************************************************)
IsParen(c) == c \in {"(", ")"}

\* The first index >= i of s that holds a parenthesis, or Len(s) + 1.
NextParen(s, i) ==
    IF \E k \in i..Len(s) : IsParen(s[k])
    THEN CHOOSE k \in i..Len(s) :
             IsParen(s[k]) /\ \A m \in i..(k - 1) : ~IsParen(s[m])
    ELSE Len(s) + 1

\* Whether the nested group \(.+?\) of the inflection pattern, opened at p,
\* can close at j with the rest of the pattern matching after it.
NestedCloses(s, p, j) ==
    /\ s[j] = ")"
    /\ \A k \in (p + 1)..(j - 1) : Dot(s[k])
    /\ NextParen(s, j + 1) <= Len(s)
    /\ s[NextParen(s, j + 1)] = ")"

\* Lines 86-88: the index of the parenthesis that closes the match of
\* ^\(([^\(\)]*(?:\(.+?\))?[^\(\)]*)\) on s, or 0 when there is no match.
InflectionMatchEnd(s) ==
    IF s = <<>> \/ s[1] # "(" THEN 0
    ELSE LET p == NextParen(s, 2)
         IN IF p > Len(s) THEN 0
            ELSE IF s[p] = ")" THEN p
            ELSE IF \E j \in (p + 2)..Len(s) : NestedCloses(s, p, j)
                 THEN LET j == CHOOSE j \in (p + 2)..Len(s) :
                                   /\ NestedCloses(s, p, j)
                                   /\ \A m \in (p + 2)..(j - 1) : ~NestedCloses(s, p, m)
                      IN NextParen(s, j + 1)
                 ELSE 0

\* Line 89: inflection_match.group(1).replace(".", ",").strip()
InflectionsStr(s) ==
    Strip(Replace(SubSeq(s, 2, InflectionMatchEnd(s) - 1), ".", ","))

\* The definition text with the whole matched span removed,
\* full_definition[inflection_match.end():].strip().
AfterInflectionsWholeSpan(s) ==
    IF InflectionMatchEnd(s) = 0 THEN s
    ELSE Strip(From(s, InflectionMatchEnd(s)))

\* Lines 86-95: the definition text after the inflections are removed.
AfterInflections(s) ==
    IF InflectionMatchEnd(s) = 0 THEN s
    ELSE Strip(From(s, Len(<<"(">> \o InflectionsStr(s) \o <<")">>)))

\* Lines 85-90: the inflections.
Inflections(s) ==
    IF InflectionMatchEnd(s) = 0 THEN <<>>
    ELSE LET parts == Split(InflectionsStr(s), ",")
         IN [i \in DOMAIN parts |-> Strip(parts[i])]

\* The index after the maximal run of characters of chars from i.
RunEnd(s, i, chars) ==
    IF \E k \in i..Len(s) : s[k] \notin chars
    THEN CHOOSE k \in i..Len(s) : s[k] \notin chars /\ \A m \in i..(k - 1) : s[m] \in chars
    ELSE IF i > Len(s) THEN i ELSE Len(s) + 1

Is(s, i, c) == i <= Len(s) /\ s[i] = c

\* One group (?:\d\. )?[a-z]+\.,?;? ? of the POS pattern from index i:
\* the index after it, or 0 when it does not match.
PosGroupEnd(s, i) ==
    LET a == IF i <= Len(s) /\ IsDigit(s[i])
             THEN (IF Is(s, i + 1, ".") /\ Is(s, i + 2, " ") THEN i + 3 ELSE 0)
             ELSE i
        b == IF a = 0 THEN 0 ELSE RunEnd(s, a, LowerLetters)
        c == IF b > a /\ Is(s, b, ".") THEN b + 1 ELSE 0
        d == IF c = 0 THEN 0 ELSE IF Is(s, c, ",") THEN c + 1 ELSE c
        e == IF d = 0 THEN 0 ELSE IF Is(s, d, ";") THEN d + 1 ELSE d
    IN IF e = 0 THEN 0 ELSE IF Is(s, e, " ") THEN e + 1 ELSE e

\* The index after the greedy repetition of the group from index i.
RECURSIVE PosGroupsEnd(_, _)
PosGroupsEnd(s, i) ==
    IF PosGroupEnd(s, i) = 0 THEN i ELSE PosGroupsEnd(s, PosGroupEnd(s, i))

\* Lines 99-101: pos, or None when the pattern does not match.
Pos(s) ==
    IF PosGroupEnd(s, 1) = 0 THEN None
    ELSE Some(Strip(SubSeq(s, 1, PosGroupsEnd(s, 1) - 1)))

\* Line 102: the definition text after the parts of speech are removed.
AfterPos(s) ==
    IF Pos(s) = None THEN s ELSE Strip(From(s, Len(Pos(s)[1])))

\* The index after a match of \d+(?:\.|\))\s* that starts at i, or 0.
NumberEnd(s, i) ==
    IF i <= Len(s) /\ IsDigit(s[i])
       /\ RunEnd(s, i, DigitChars) <= Len(s)
       /\ s[RunEnd(s, i, DigitChars)] \in {".", ")"}
    THEN RunEnd(s, RunEnd(s, i, DigitChars) + 1, SpaceChars)
    ELSE 0

\* Line 118: re.split(r"\d+(?:\.|\))\s*", s); piece is the text since the
\* last match, i the scanning position.
RECURSIVE SplitNumbered(_, _, _)
SplitNumbered(s, i, piece) ==
    IF i > Len(s) THEN <<piece>>
    ELSE IF NumberEnd(s, i) > 0
         THEN <<piece>> \o SplitNumbered(s, NumberEnd(s, i), <<>>)
         ELSE SplitNumbered(s, i + 1, Append(piece, s[i]))

\* A dict comprehension that keeps the items with a truthy value.
OmitEmpty(d) ==
    [k \in {x \in DOMAIN d : d[x] # <<>>} |-> d[k]]

\* Lines 108-117: one definition dict.
Definition(description, pos, inflections, source) ==
    OmitEmpty([description |-> StripChars(description, {" ", ";"}),
               pos |-> IF pos = None THEN <<>> ELSE pos[1],
               inflections |-> inflections,
               source_link |-> source])

\* SelectSeq with an operator defined in place.
NonEmptyPieces(pieces) ==
    LET NonEmpty(x) == x # <<>> IN SelectSeq(pieces, NonEmpty)

\* Mutant: the parts of speech are extracted before the inflections.
DefinitionsPosFirst(word, text, source) ==
    LET stripped == StripWordPrefix(word, Strip(text))
        pos == Pos(stripped)
        nopos == AfterPos(stripped)
        inflections == Inflections(nopos)
        full_definition == AfterInflections(nopos)
        pieces == NonEmptyPieces(SplitNumbered(full_definition, 1, <<>>))
    IN IF full_definition = <<>> THEN <<>>
       ELSE [i \in DOMAIN pieces |-> Definition(pieces[i], pos, inflections, source)]

\* Lines 81-123: the definitions of an entry, from the resolved headword,
\* the rendered definition text and the source link.
Definitions(word, text, source) ==
    LET stripped == StripWordPrefix(word, Strip(text))
        inflections == Inflections(stripped)
        noinfl == AfterInflections(stripped)
        pos == Pos(noinfl)
        full_definition == AfterPos(noinfl)
        pieces == NonEmptyPieces(SplitNumbered(full_definition, 1, <<>>))
    IN IF full_definition = <<>> THEN <<>>
       ELSE [i \in DOMAIN pieces |-> Definition(pieces[i], pos, inflections, source)]

\* Lines 61-131: process_entry; Some(entry dict), or None.
PinoyProcessEntry(entry) ==
    IF entry.word = None \/ entry.word[1] = <<>> \/ IsSpaceStr(entry.word[1])
    THEN None
    ELSE IF ~Compiles(ResolveWord(entry.word[1])) THEN None
    ELSE Some([word |-> ResolveWord(entry.word[1]),
               definitions |-> Definitions(ResolveWord(entry.word[1]),
                                           entry.definition, entry.source)])

(***************************************************************************)
(* Scraped dictionary parser: state machine.                               *)
(***************************************************************************)
\* The "word" values of the scraped records (None: the key is missing).
PinoyWords ==
    { None, Some(<<" ">>), Some(<<"a">>), Some(<<"a"," ","(","b",")">>),
      Some(<<"a",","," ","b">>), Some(<<"(","a",")">>), Some(<<",","a">>),
      Some(<<"a",")">>), Some(<<"(",")">>) }

\* The rendered "definition" texts of the scraped records.
PinoyTexts ==
    { <<>>,
      <<"a"," ","b","u","s","y",";",".",".",".">>,
      <<"(","t","e","n","s","e",","," ","f","o","r","m",")"," ","v","."," ",
        "1","."," ","t","o"," ","r","u","n"," ","2","."," ","t","o"," ",
        "f","l","e","e">>,
      <<"("," ","x"," ",")"," ","y">>,
      <<"1","."," ",";"," ","2","."," ","x">>,
      <<"n","."," ","x">>,
      <<"a"," ","(","b",","," ","c",")"," ","n","."," ","1","."," ","x"," ",
        "2",")"," ","y">> }

Url == <<"u">>

\* raw_data holds records that vary the headword, and records that vary the
\* definition text and the source link.
PinoyEntries ==
    { [word |-> w, definition |-> <<"a"," ","b">>, source |-> Url] : w \in PinoyWords }
    \cup { [word |-> Some(<<"a">>), definition |-> d, source |-> u] :
               d \in PinoyTexts, u \in {<<>>, Url} }

\* main, lines 27-34.
PInit ==
    /\ ppc = "load"
    /\ p_raw = <<>>
    /\ p_parsed = <<>>
    /\ p_written = <<>>

\* main, lines 28-31: there is no raw data, the program exits.
NoRawData ==
    /\ ppc = "load"
    /\ ppc' = "exit"
    /\ UNCHANGED <<p_raw, p_parsed, p_written>>
    /\ UNCHANGED <<gvars, fvars, cvars>>

\* parse, lines 53-55: one iteration of the loop over raw_data.
ParseEntry ==
    /\ ppc \in {"load", "parse"}
    /\ Len(p_raw) < MaxRaw
    /\ \E entry \in PinoyEntries :
          /\ p_raw' = Append(p_raw, entry)
          /\ p_parsed' = IF PinoyProcessEntry(entry) = None THEN p_parsed
                         ELSE Append(p_parsed, PinoyProcessEntry(entry)[1])
    /\ ppc' = "parse"
    /\ UNCHANGED p_written
    /\ UNCHANGED <<gvars, fvars, cvars>>

\* parse, lines 57-58: raw_data is exhausted.
PinoyParseReturn ==
    /\ ppc = "parse"
    /\ ppc' = "export"
    /\ UNCHANGED <<p_raw, p_parsed, p_written>>
    /\ UNCHANGED <<gvars, fvars, cvars>>

\* main, line 44: export_parsed_data(parsed_data, meta), lines 154-195.
PinoyExport ==
    /\ ppc = "export"
    /\ ppc' = "exit"
    /\ IF p_parsed = <<>>
       THEN UNCHANGED p_written
       ELSE \/ p_written' = Append(p_written, p_parsed)
            \/ UNCHANGED p_written    \* the write raises (lines 193-195)
    /\ UNCHANGED <<p_raw, p_parsed>>
    /\ UNCHANGED <<gvars, fvars, cvars>>

InitPinoy == PInit /\ GIdle /\ FIdle /\ CIdle
NextPinoy ==
    \/ NoRawData
    \/ ParseEntry
    \/ PinoyParseReturn
    \/ PinoyExport
SpecPinoy == InitPinoy /\ [][NextPinoy]_vars

(***************************************************************************)
(* Properties of the scraped dictionary parser.                            *)
(***************************************************************************)
\* A text that is empty or holds only white space.
IsBlank(s) == s = <<>> \/ IsSpaceStr(s)

\* C10: whenever the headword of a record, after its parenthesized asides
\* are removed and its first comma-separated variant is kept, is empty or
\* white space, process_entry returns None; hence every entry that parse
\* has collected, and every entry written, has a non-empty headword.
C10_ResolvedHeadwordNotBlank ==
    /\ \A i \in DOMAIN p_raw :
          (p_raw[i].word # None /\ IsBlank(ResolveWord(p_raw[i].word[1])))
              => PinoyProcessEntry(p_raw[i]) = None
    /\ \A i \in DOMAIN p_parsed : ~IsBlank(p_parsed[i].word)
    /\ \A n \in DOMAIN p_written : \A i \in DOMAIN p_written[n] :
          ~IsBlank(p_written[n][i].word)

\* C11: every definition of every collected entry carries a description,
\* and the description is non-empty after trimming; a candidate sense whose
\* description is empty after trimming appears in no entry.
C11_DescriptionNonEmpty ==
    \A k \in 1..Len(p_parsed) : \A j \in 1..Len(p_parsed[k].definitions) :
        /\ "description" \in DOMAIN p_parsed[k].definitions[j]
        /\ ~IsBlank(p_parsed[k].definitions[j].description)

\* The two example texts of the pipeline and the senses they are to yield.
PipelineText ==
    <<"(","t","e","n","s","e",","," ","f","o","r","m",")"," ","v","."," ",
      "1","."," ","t","o"," ","r","u","n"," ","2","."," ","t","o"," ",
      "f","l","e","e">>
PrefixedText ==
    <<"a"," ","(","b",","," ","c",")"," ","n","."," ","1","."," ","x"," ",
      "2",")"," ","y">>

Sense(description, pos, inflections, source) ==
    IF source = <<>>
    THEN [description |-> description, pos |-> pos, inflections |-> inflections]
    ELSE [description |-> description, pos |-> pos, inflections |-> inflections,
          source_link |-> source]

PipelineSenses(source) ==
    << Sense(<<"t","o"," ","r","u","n">>, <<"v",".">>,
             << <<"t","e","n","s","e">>, <<"f","o","r","m">> >>, source),
       Sense(<<"t","o"," ","f","l","e","e">>, <<"v",".">>,
             << <<"t","e","n","s","e">>, <<"f","o","r","m">> >>, source) >>

PrefixedSenses(source) ==
    << Sense(<<"x">>, <<"n",".">>, << <<"b">>, <<"c">> >>, source),
       Sense(<<"y">>, <<"n",".">>, << <<"b">>, <<"c">> >>, source) >>

\* C12: the stages run in the order prefix-stripping, inflection
\* extraction, POS extraction, sense-splitting, each on the text the stage
\* before it left: "(tense, form) v. 1. to run 2. to flee" yields
\* inflections [tense, form], pos "v." and the descriptions "to run",
\* "to flee" in that order, and for the headword "a" the text
\* "a (b, c) n. 1. x 2) y" yields inflections [b, c], pos "n." and the
\* descriptions "x", "y"; the entry that parse collects holds these senses.
C12_PipelineOrder ==
    /\ \A i \in DOMAIN p_raw :
          /\ (p_raw[i].word = Some(<<"a">>) /\ p_raw[i].definition = PipelineText)
                => PinoyProcessEntry(p_raw[i]) =
                       Some([word |-> <<"a">>,
                             definitions |-> PipelineSenses(p_raw[i].source)])
          /\ (p_raw[i].word = Some(<<"a">>) /\ p_raw[i].definition = PrefixedText)
                => PinoyProcessEntry(p_raw[i]) =
                       Some([word |-> <<"a">>,
                             definitions |-> PrefixedSenses(p_raw[i].source)])
    /\ (Len(p_raw) >= 1 /\ p_raw[1].word = Some(<<"a">>)
           /\ p_raw[1].definition = PipelineText)
          => (Len(p_parsed) >= 1
                 /\ p_parsed[1].definitions = PipelineSenses(p_raw[1].source))
    /\ (Len(p_raw) >= 1 /\ p_raw[1].word = Some(<<"a">>)
           /\ p_raw[1].definition = PrefixedText)
          => (Len(p_parsed) >= 1
                 /\ p_parsed[1].definitions = PrefixedSenses(p_raw[1].source))

\* C12 witness: both example texts have been parsed and the file written
\* holds the senses of the first example followed by those of the second.
C12_Witness ==
    /\ ppc = "exit"
    /\ Len(p_raw) = 2
    /\ p_raw[1].definition = PipelineText /\ p_raw[1].source = Url
    /\ p_raw[2].definition = PrefixedText /\ p_raw[2].source = Url
    /\ Len(p_written) = 1
    /\ p_written[1][1].definitions = PipelineSenses(Url)
    /\ p_written[1][2].definitions = PrefixedSenses(Url)

\* A raw record whose headword resolves: the key is present, and the
\* headword is non-blank before and after the cleanup of lines 75-78.
HeadwordResolves(entry) ==
    /\ entry.word # None
    /\ ~IsBlank(entry.word[1])
    /\ ~IsBlank(ResolveWord(entry.word[1]))

\* C13: a failure in a field extractor (any step other than resolving the
\* headword and rendering the markup) does not discard the entry: every
\* raw record whose headword resolves is returned with that headword, and
\* parse collects it.
C13_ExtractorFailureKeepsEntry ==
    /\ \A i \in DOMAIN p_raw :
          HeadwordResolves(p_raw[i]) =>
              /\ PinoyProcessEntry(p_raw[i]) # None
              /\ PinoyProcessEntry(p_raw[i])[1].word = ResolveWord(p_raw[i].word[1])
    /\ (Len(p_raw) >= 1 /\ HeadwordResolves(p_raw[1])) =>
          (Len(p_parsed) >= 1 /\ p_parsed[1].word = ResolveWord(p_raw[1].word[1]))

(***************************************************************************)
(* gcide parser with the exit hook.  main registers                        *)
(* on_exit(lambda: export_parsed_data(parsed_data)) before parse (lines    *)
(* 35-38); on an interrupt the hook exports what parsed_data holds at that *)
(* moment and the process ends.  mpc = "exit" is main after its own        *)
(* export_parsed_data has returned, the hook still registered.             *)
(***************************************************************************)
Interrupt ==
    /\ mpc \in {"parse", "export", "exit"}
    /\ mpc' = "interrupted"
    /\ IF parsed_data = <<>>
       THEN UNCHANGED <<parsed_data, written>>
       ELSE /\ parsed_data' = ExportSorted(parsed_data)
            /\ \/ written' = Append(written, parsed_data')
               \/ UNCHANGED written    \* IOError while writing (lines 206-208)
    /\ UNCHANGED <<order, wpc, read, data, next_result>>
    /\ UNCHANGED <<fvars, pvars, cvars>>

NextInterrupt ==
    \/ GNext
    \/ Interrupt

SpecInterrupt == Init /\ [][NextInterrupt]_vars

\* C14: when the interrupt arrives while partitions are being processed,
\* the collection the hook exports holds the entries of every partition
\* whose worker has completed at that moment.
C14_CompletedWorkersFlushed ==
    [][(mpc = "parse" /\ mpc' = "interrupted") =>
          \A l \in Letters :
              wpc[l] = "done" =>
                  \A k \in DOMAIN data[l] :
                      \E j \in DOMAIN parsed_data' : parsed_data'[j] = data[l][k]
      ]_vars

\* C16: in any run the accumulated collection is written at most once.
C16_ExportAtMostOnce == Len(written) <= 1

(***************************************************************************)
(* Text cleanup: unescape(node.get_text(strip=True)), gcide parser lines   *)
(* 106-110 and 136.  A text is a concatenation of at most MaxTokens        *)
(* tokens; the names a text can hold are then runs of "amp" and "NewLine", *)
(* of which the html5 table of html.unescape knows "amp", "amp;" and       *)
(* "NewLine;".                                                             *)
(***************************************************************************)
Ampersand == <<"&">>
Semicolon == <<";">>
Blank == <<" ">>
AmpName == <<"a","m","p">>
NewLineName == <<"N","e","w","L","i","n","e">>
Tokens == {Ampersand, Semicolon, Blank, AmpName, NewLineName}

RECURSIVE Concat(_)
Concat(tokens) ==
    IF tokens = <<>> THEN <<>> ELSE Head(tokens) \o Concat(Tail(tokens))

Texts == {Concat(tokens) : tokens \in SeqsUpTo(Tokens, MaxTokens)}

\* The characters of the class [^\t\n\f <&#;] that a text can hold.
NameChars == {"a","m","p","N","e","w","L","i","n"}

\* html.entities.html5, the names a text can hold.
Html5Names == {AmpName, AmpName \o Semicolon, NewLineName \o Semicolon}
Html5(name) == IF name = NewLineName \o Semicolon THEN <<"\n">> ELSE Ampersand

\* html._replace_charref on the named reference s (group 1 of the match).
ReplaceCharref(s) ==
    IF s \in Html5Names THEN Html5(s)
    ELSE IF \E x \in 2..(Len(s) - 1) : SubSeq(s, 1, x) \in Html5Names
         THEN LET x == CHOOSE x \in 2..(Len(s) - 1) :
                           /\ SubSeq(s, 1, x) \in Html5Names
                           /\ \A y \in (x + 1)..(Len(s) - 1) :
                                 SubSeq(s, 1, y) \notin Html5Names
              IN Html5(SubSeq(s, 1, x)) \o SubSeq(s, x + 1, Len(s))
         ELSE Ampersand \o s

\* re.sub of &([^\t\n\f <&#;]{1,32};?) from index i on.
RECURSIVE UnescapeFrom(_, _)
UnescapeFrom(s, i) ==
    IF i > Len(s) THEN <<>>
    ELSE IF s[i] = "&" /\ i < Len(s) /\ s[i + 1] \in NameChars
         THEN LET run == RunEnd(s, i + 1, NameChars)
                  e == IF run > i + 33 THEN i + 33 ELSE run
                  j == IF e <= Len(s) /\ s[e] = ";" THEN e + 1 ELSE e
              IN ReplaceCharref(SubSeq(s, i + 1, j - 1)) \o UnescapeFrom(s, j)
         ELSE <<s[i]>> \o UnescapeFrom(s, i + 1)

\* html.unescape
Unescape(s) ==
    IF \A i \in DOMAIN s : s[i] # "&" THEN s ELSE UnescapeFrom(s, 1)

\* Line 107: unescape(d.get_text(strip=True))
UnescapeAndTrim(s) == Unescape(Strip(s))

CInit ==
    /\ c_text \in Texts
    /\ c_out = <<>>

\* The cleanup is applied to the text, then to its own result.
Clean ==
    /\ Len(c_out) < 2
    /\ c_out' = Append(c_out, UnescapeAndTrim(IF c_out = <<>> THEN c_text
                                              ELSE c_out[Len(c_out)]))
    /\ UNCHANGED c_text
    /\ UNCHANGED <<gvars, fvars, pvars>>

InitCleanup == CInit /\ GIdle /\ FIdle /\ PIdle
NextCleanup == Clean
SpecCleanup == InitCleanup /\ [][NextCleanup]_vars

\* C15: for every text, cleaning the cleaned text gives the cleaned text.
C15_CleanupIdempotent ==
    Len(c_out) = 2 => c_out[2] = c_out[1]

\* C15, amended: for every text that holds no "&", cleaning the cleaned
\* text gives the cleaned text, which is the text without its leading and
\* trailing white space.
C15_IdempotentWithoutReference ==
    (Len(c_out) = 2 /\ \A i \in DOMAIN c_text : c_text[i] # "&") =>
        /\ c_out[2] = c_out[1]
        /\ c_out[1] = Strip(c_text)

\* C15 witness: " amp;  " has been cleaned twice and both results are "amp;".
C15_Witness ==
    /\ c_text = Blank \o AmpName \o Semicolon \o Blank \o Blank
    /\ c_out = <<AmpName \o Semicolon, AmpName \o Semicolon>>

\* The definition text on which the inflection extractor of a record works.
InflectionInput(entry) ==
    StripWordPrefix(ResolveWord(entry.word[1]), Strip(entry.definition))

\* C17: whenever the leading parenthesized group matches, the text handed
\* to the POS extractor is the definition text without the whole matched
\* span, from the opening parenthesis through its closing parenthesis.
C17_WholeSpanRemoved ==
    \A i \in DOMAIN p_raw :
        (PinoyProcessEntry(p_raw[i]) # None
            /\ InflectionMatchEnd(InflectionInput(p_raw[i])) > 0)
        => AfterInflections(InflectionInput(p_raw[i]))
               = AfterInflectionsWholeSpan(InflectionInput(p_raw[i]))

====
